---- MODULE Spec2Model ----
(***************************************************************************)
(* A model of the Testability Refactoring Analyzer: the score calculator,  *)
(* the threshold classifier, the rule evaluators as far as the analyzer    *)
(* reaches them, and TestabilityAnalyzer.analyze_file as a state machine.  *)
(*                                                                         *)
(* A source file is a status (readable and parseable, or one of the ways   *)
(* open()/ast.parse() fails) and a syntax tree.  The tree is a sequence of *)
(* nodes in source order (pre-order); node i is on line i and names its    *)
(* parent (0 is the Module).                                               *)
(***************************************************************************)
EXTENDS Integers, Sequences, FiniteSets, TLC

VARIABLES
    pc,               \* position of the running call
    args,             \* arguments of a direct call to a pure operation
    ret,              \* value returned by a direct call
    file,             \* the file analyze_file is called on
    tree,             \* analyze_file: tree returned by parse_file
    context,          \* analyze_file: AnalysisContext
    function_scores,  \* analyze_file: local function_scores
    class_scores,     \* analyze_file: local class_scores
    overall_score,    \* analyze_file: local overall_score
    classification,   \* analyze_file: local classification
    result,           \* analyze_file: the returned FileScore
    exc,              \* exception that left analyze_file, or "none"
    context_builds,   \* number of build_context calls made
    rule_calls,       \* number of rule.evaluate calls made
    registry          \* the analyzer's RuleRegistry

vars == <<pc, args, ret, file, tree, context, function_scores, class_scores,
          overall_score, classification, result, exc, context_builds, rule_calls,
          registry>>

analysisVars == <<file, tree, context, function_scores, class_scores,
                  overall_score, classification, result, exc,
                  context_builds, rule_calls, registry>>

-----------------------------------------------------------------------------
(* Bounds of the model *)

MaxViolations == 3
MaxFunctions == 2
MaxClasses == 1
MaxMethods == 1
MaxNodes == 3
MaxFiles == 2
MaxParameters == 8
MaxBody == 2
MaxEvaluations == 2
MaxRegistryCalls == 2
MaxAliases == 2
MaxImports == 2
MaxStatements == 2
ScoreMargin == 3

-----------------------------------------------------------------------------
(* Generic helpers *)

RECURSIVE SeqsUpTo(_, _)
SeqsUpTo(S, n) ==
    IF n = 0 THEN {<<>>}
    ELSE LET shorter == SeqsUpTo(S, n - 1)
         IN  shorter \cup {Append(s, x) : s \in {t \in shorter : Len(t) = n - 1}, x \in S}

RECURSIVE SumPoints(_)
SumPoints(violations) ==
    IF violations = <<>> THEN 0
    ELSE Head(violations).points_deducted + SumPoints(Tail(violations))

RECURSIVE MinOfSeq(_)
MinOfSeq(s) ==
    IF Len(s) = 1 THEN s[1]
    ELSE LET m == MinOfSeq(Tail(s)) IN IF s[1] <= m THEN s[1] ELSE m

Max2(a, b) == IF a >= b THEN a ELSE b

SetMin(S) == CHOOSE m \in S : \A x \in S : m <= x

SeqRange(s) == {s[i] : i \in 1..Len(s)}

RECURSIVE Flatten(_)
Flatten(ss) == IF ss = <<>> THEN <<>> ELSE Head(ss) \o Flatten(Tail(ss))

RECURSIVE SelectRedFlags(_)
SelectRedFlags(violations) ==
    IF violations = <<>> THEN <<>>
    ELSE (IF Head(violations).is_red_flag THEN <<Head(violations)>> ELSE <<>>)
         \o SelectRedFlags(Tail(violations))

-----------------------------------------------------------------------------
(* base.py: the value objects *)

Violation(rule, points, line, fname, red) ==
    [rule_name |-> rule, points_deducted |-> points, line_number |-> line,
     function_name |-> fname, is_red_flag |-> red]

FunctionScore(name, line, final, violations, baseline) ==
    [name |-> name, line_number |-> line, final_score |-> final,
     violations |-> violations, baseline_score |-> baseline]

ClassScore(name, line, ctor, methods) ==
    [name |-> name, line_number |-> line, constructor_violations |-> ctor,
     method_scores |-> methods]

FileScore(path, overall, class, fscores, cscores, flags) ==
    [file_path |-> path, overall_score |-> overall, classification |-> class,
     function_scores |-> fscores, class_scores |-> cscores, red_flags |-> flags]

-----------------------------------------------------------------------------
(* scoring.py: ScoreCalculator *)

baseline_score == 100
min_score == 0

calculate_function_score_unclamped(function_name, line_number, violations) ==
    FunctionScore(function_name, line_number,
                  baseline_score - SumPoints(violations), violations, baseline_score)

calculate_function_score(function_name, line_number, violations) ==
    LET total_deduction == SumPoints(violations)
        score == Max2(baseline_score - total_deduction, min_score)
    IN  FunctionScore(function_name, line_number, score, violations, baseline_score)

RECURSIVE MethodFinalScores(_)
MethodFinalScores(cscores) ==
    IF cscores = <<>> THEN <<>>
    ELSE [i \in 1..Len(Head(cscores).method_scores) |->
              Head(cscores).method_scores[i].final_score]
         \o MethodFinalScores(Tail(cscores))

RECURSIVE ConstructorScores(_, _, _)
ConstructorScores(cscores, base, floor) ==
    IF cscores = <<>> THEN <<>>
    ELSE LET constructor_penalty == SumPoints(Head(cscores).constructor_violations)
         IN  (IF constructor_penalty > 0
              THEN <<Max2(base - constructor_penalty, floor)>>
              ELSE <<>>)
             \o ConstructorScores(Tail(cscores), base, floor)

aggregate_file_score_no_methods(fscores, cscores) ==
    LET all_scores == [i \in 1..Len(fscores) |-> fscores[i].final_score]
                      \o ConstructorScores(cscores, baseline_score, min_score)
    IN  IF all_scores = <<>> THEN baseline_score ELSE MinOfSeq(all_scores)

aggregate_file_score(fscores, cscores) ==
    LET all_scores == [i \in 1..Len(fscores) |-> fscores[i].final_score]
                      \o MethodFinalScores(cscores)
                      \o ConstructorScores(cscores, baseline_score, min_score)
    IN  IF all_scores = <<>> THEN baseline_score ELSE MinOfSeq(all_scores)

-----------------------------------------------------------------------------
(* threshold_classifier.py: ThresholdClassifier *)

Band(name, lo, hi) == [name |-> name, min_score |-> lo, max_score |-> hi]

file_bands ==
    << Band("Healthy", 80, 100), Band("Caution", 60, 79),
       Band("High Friction", 40, 59), Band("Refactor First", 0, 39) >>

function_bands ==
    << Band("Easy", 75, 100), Band("Testable", 55, 74),
       Band("Hard", 35, 54), Band("Painful", 0, 34) >>

\* for band_name, (min_score, max_score) in bands.items(): first match wins
RECURSIVE FirstBand(_, _)
FirstBand(bands, score) ==
    IF bands = <<>> THEN "Unknown"
    ELSE IF Head(bands).min_score <= score /\ score <= Head(bands).max_score
         THEN Head(bands).name
         ELSE FirstBand(Tail(bands), score)

RECURSIVE FirstBandExclusive(_, _)
FirstBandExclusive(bands, score) ==
    IF bands = <<>> THEN "Unknown"
    ELSE IF Head(bands).min_score < score /\ score <= Head(bands).max_score
         THEN Head(bands).name
         ELSE FirstBandExclusive(Tail(bands), score)

classify_file_score_exclusive(score) == FirstBandExclusive(file_bands, score)

classify_file_score(score) == FirstBand(file_bands, score)

classify_function_score_file_bands(score) ==
    LET name == FirstBand(file_bands, score)
    IN  CASE name = "Healthy" -> "Easy"
          [] name = "Caution" -> "Testable"
          [] name = "High Friction" -> "Hard"
          [] name = "Refactor First" -> "Painful"
          [] OTHER -> "Unknown"

classify_function_score(score) == FirstBand(function_bands, score)

-----------------------------------------------------------------------------
(* The syntax tree (what ast.parse returns for the file's text)            *)
(*                                                                         *)
(* Definitions:  FunctionDef / AsyncFunctionDef named f or __init__, and   *)
(* ClassDef named C; none has parameters or decorators, and a definition   *)
(* without child nodes has the body `pass`.                                *)
(* Statements (leaves):  Return `return 1`, Global `global g`,             *)
(* Import `import requests`, CallOpen `open('f')`, If `if x: pass`.        *)
(* The rule evaluators are also called on trees that hold CallTime          *)
(* `time.time()`, CallRandom `random.random()` and Try `try: pass` /       *)
(* `except: pass` (two lines, so a Try is the last statement of its tree). *)

FunctionKinds == {"FunctionDef", "AsyncFunctionDef"}
DefKinds == FunctionKinds \cup {"ClassDef"}
StatementKinds == {"Return", "Global", "Import", "CallOpen", "If"}

Node(kind, name, parent) == [kind |-> kind, name |-> name, parent |-> parent]

NodeShapes ==
    {<<"FunctionDef", "f">>, <<"FunctionDef", "__init__">>,
     <<"AsyncFunctionDef", "f">>, <<"ClassDef", "C">>}
    \cup {<<k, "">> : k \in StatementKinds}

\* the definitions that may enclose the next node in source order:
\* node i itself and its ancestors (0 is the Module)
RECURSIVE OpenScopes(_, _)
OpenScopes(t, i) ==
    IF i = 0 THEN {0}
    ELSE (IF t[i].kind \in DefKinds THEN {i} ELSE {}) \cup OpenScopes(t, t[i].parent)

RECURSIVE Trees(_)
Trees(n) ==
    IF n = 0 THEN {<<>>}
    ELSE LET smaller == Trees(n - 1)
         IN  smaller \cup
             {Append(t, Node(sh[1], sh[2], p)) :
                 <<t, sh, p>> \in
                     {<<t, sh, p>> \in {u \in smaller : Len(u) = n - 1}
                                       \X NodeShapes \X (0..(n - 1)) :
                          p \in OpenScopes(t, Len(t))}}

FileStatuses == {"ok", "syntax_error", "decode_error", "missing", "unreadable"}

FilePaths == {"a.py"}

Files == [path : FilePaths, status : FileStatuses, nodes : Trees(MaxNodes)]

\* ast.iter_child_nodes: the children of node i (0: the Module) in source order
Children(t, i) == SelectSeq([j \in 1..Len(t) |-> j], LAMBDA j : t[j].parent = i)

\* ast.walk: breadth-first, the start node first
RECURSIVE Bfs(_, _)
Bfs(t, queue) ==
    IF queue = <<>> THEN <<>>
    ELSE <<Head(queue)>> \o Bfs(t, Tail(queue) \o Children(t, Head(queue)))

Walk(t, i) == Bfs(t, <<i>>)

\* ast.walk(tree) without the Module node itself
ModuleWalk(t) == Bfs(t, Children(t, 0))

KindsIn(t, walk) == {t[walk[j]].kind : j \in 1..Len(walk)}

-----------------------------------------------------------------------------
(* ast_utils.py *)

NoTree == [is_none |-> TRUE, nodes |-> <<>>]

\* open(...).read() and ast.parse; only SyntaxError and UnicodeDecodeError
\* are caught
parse_file_decode_uncaught(f) ==
    CASE f.status = "ok" -> [exc |-> "none", tree |-> [is_none |-> FALSE, nodes |-> f.nodes]]
      [] f.status = "syntax_error" -> [exc |-> "none", tree |-> NoTree]
      [] f.status = "decode_error" -> [exc |-> "UnicodeDecodeError", tree |-> NoTree]
      [] f.status = "missing" -> [exc |-> "FileNotFoundError", tree |-> NoTree]
      [] f.status = "unreadable" -> [exc |-> "PermissionError", tree |-> NoTree]

parse_file(f) ==
    CASE f.status = "ok" -> [exc |-> "none", tree |-> [is_none |-> FALSE, nodes |-> f.nodes]]
      [] f.status = "syntax_error" -> [exc |-> "none", tree |-> NoTree]
      [] f.status = "decode_error" -> [exc |-> "none", tree |-> NoTree]
      [] f.status = "missing" -> [exc |-> "FileNotFoundError", tree |-> NoTree]
      [] f.status = "unreadable" -> [exc |-> "PermissionError", tree |-> NoTree]

NoContext == [imports |-> {}, global_variables |-> {}, functions |-> <<>>, classes |-> <<>>]

NamesOfKinds(t, kinds) ==
    LET idx == SelectSeq([j \in 1..Len(t) |-> j], LAMBDA j : t[j].kind \in kinds)
    IN  [j \in 1..Len(idx) |-> t[idx[j]].name]

\* ASTVisitor visits depth-first in source order
build_context(t) ==
    [imports |-> IF \E j \in 1..Len(t) : t[j].kind = "Import" THEN {"requests"} ELSE {},
     global_variables |-> IF \E j \in 1..Len(t) : t[j].kind = "Global" THEN {"g"} ELSE {},
     functions |-> NamesOfKinds(t, FunctionKinds),
     classes |-> NamesOfKinds(t, {"ClassDef"})]

-----------------------------------------------------------------------------
(* rules/*.py: the rule evaluators.  evaluate(node, context) either        *)
(* returns a list of violations or lets an exception escape.               *)

\* what a call of evaluate does: it returns a list or raises, and `writes`
\* lists the assignments it made to the context, to a node of the tree or to
\* the registry, in the order made; no evaluator of the package makes any
Ok(violations) == [exc |-> "none", violations |-> violations, writes |-> <<>>]
Raise(e) == [exc |-> e, violations |-> <<>>, writes |-> <<>>]

\* an isinstance test that lets class definitions through as well
IsFunction_or_class(t, i) == i \in 1..Len(t) /\ t[i].kind \in FunctionKinds \cup {"ClassDef"}

IsFunction(t, i) == i \in 1..Len(t) /\ t[i].kind \in FunctionKinds

\* first node of a walk whose kind is in kinds (0 when there is none)
RECURSIVE FirstMatching(_, _, _)
FirstMatching(t, walk, kinds) ==
    IF walk = <<>> THEN 0
    ELSE IF t[Head(walk)].kind \in kinds THEN Head(walk)
         ELSE FirstMatching(t, Tail(walk), kinds)

\* re.split(r"[^a-z0-9]+", name.lower()) for the names of the model
NameTokens(name) ==
    CASE name = "f" -> {"f"}
      [] name = "__init__" -> {"init"}
      [] name = "C" -> {"c"}
      [] OTHER -> {}

FileIO_penalty == 10
FileIO_indicators == {"read", "write", "file", "dir", "path", "io", "temp"}
\* statements holding a call of a name in _io_functions
FileIO_kinds == {"CallOpen"}

_is_io_function_name(name) == NameTokens(name) \cap FileIO_indicators # {}

FileIORule_evaluate(t, ctx, i) ==
    IF ~IsFunction(t, i) THEN Ok(<<>>)
    ELSE IF _is_io_function_name(t[i].name) THEN Ok(<<>>)
    ELSE LET m == FirstMatching(t, Walk(t, i), FileIO_kinds)
         IN  IF m = 0 THEN Ok(<<>>)
             ELSE Ok(<<Violation("Direct File I/O in Logic", FileIO_penalty,
                                 m, t[i].name, FALSE)>>)

TimeUsage_penalty == 10
\* a call of time.time(); no statement of the model imports a time module
TimeUsage_kinds == {"CallTime"}

\* the rule taking the call it reports out of the function body
TimeUsageRule_evaluate_consumes(t, ctx, i) ==
    IF ~IsFunction(t, i) THEN Ok(<<>>)
    ELSE LET m == FirstMatching(t, Walk(t, i), TimeUsage_kinds)
         IN  IF m = 0 THEN Ok(<<>>)
             ELSE [Ok(<<Violation("Non-Deterministic Time Usage", TimeUsage_penalty,
                                  m, t[i].name, TRUE)>>)
                   EXCEPT !.writes = <<[object |-> "node", index |-> m,
                                        field |-> "kind", value |-> "Pass"]>>]

TimeUsageRule_evaluate(t, ctx, i) ==
    IF ~IsFunction(t, i) THEN Ok(<<>>)
    ELSE LET m == FirstMatching(t, Walk(t, i), TimeUsage_kinds)
         IN  IF m = 0 THEN Ok(<<>>)
             ELSE Ok(<<Violation("Non-Deterministic Time Usage", TimeUsage_penalty,
                                 m, t[i].name, TRUE)>>)

Randomness_penalty == 10
\* a call of random.random(); no statement of the model imports such a module
Randomness_kinds == {"CallRandom"}

\* the rule with its violation not marked as a red flag
RandomnessRule_evaluate_unflagged(t, ctx, i) ==
    IF ~IsFunction(t, i) THEN Ok(<<>>)
    ELSE LET m == FirstMatching(t, Walk(t, i), Randomness_kinds)
         IN  IF m = 0 THEN Ok(<<>>)
             ELSE Ok(<<Violation("Randomness Usage", Randomness_penalty,
                                 m, t[i].name, FALSE)>>)

RandomnessRule_evaluate(t, ctx, i) ==
    IF ~IsFunction(t, i) THEN Ok(<<>>)
    ELSE LET m == FirstMatching(t, Walk(t, i), Randomness_kinds)
         IN  IF m = 0 THEN Ok(<<>>)
             ELSE Ok(<<Violation("Randomness Usage", Randomness_penalty,
                                 m, t[i].name, TRUE)>>)

GlobalState_penalty == 10
\* isinstance(node, ast.Global)
GlobalState_kinds == {"Global"}

\* the object names of the ast.Attribute test and of _is_global_assignment
GlobalState_attribute_objects == {"os", "sys", "config", "settings", "globals"}
GlobalState_assigned_objects == {"os", "sys", "config", "settings"}
\* the method and object names of the ast.Call test
GlobalState_mutators ==
    {"register", "unregister", "update", "set", "clear", "append", "extend"}
GlobalState_registries == {"registry", "cache", "pool", "manager"}

\* Expressions of a statement are records: a Name with its id, an Attribute
\* with the id of the Name it is read from and its attr, a Call with its
\* func, a Constant.  A statement of the model that carries no target or
\* value field has no expression that the rule reacts to.
NoExpr == [expr |-> "Constant"]
TargetOf(n) == IF "target" \in DOMAIN n THEN n.target ELSE NoExpr
ValueOf(n) == IF "value" \in DOMAIN n THEN n.value ELSE NoExpr

\* import_name.split('.')[0] for the import names of the model
ImportTopLevel(import_name) ==
    CASE import_name = "requests.adapters" -> "requests"
      [] OTHER -> import_name

_is_global_assignment(target, ctx) ==
    IF target.expr = "Name"
    THEN \/ target.id \in ctx.global_variables
         \/ \E import_name \in ctx.imports : target.id = ImportTopLevel(import_name)
    ELSE IF target.expr = "Attribute"
    THEN target.value_id \in GlobalState_assigned_objects
    ELSE FALSE

\* _contains_global_mutation on a statement node
StatementMutates(n, ctx) ==
    \/ n.kind \in GlobalState_kinds
    \/ n.kind = "Assign" /\ _is_global_assignment(TargetOf(n), ctx)
    \/ /\ n.kind = "AugAssign"
       /\ TargetOf(n).expr = "Name"
       /\ TargetOf(n).id \in ctx.global_variables

\* _contains_global_mutation on an expression node
ExpressionMutates(e) ==
    \/ e.expr = "Attribute" /\ e.value_id \in GlobalState_attribute_objects
    \/ /\ e.expr = "Call"
       /\ e.func.expr = "Attribute"
       /\ e.func.attr \in GlobalState_mutators
       /\ e.func.value_id \in GlobalState_registries

\* The depth below its parent at which a statement first satisfies
\* _contains_global_mutation: 1 for the statement itself, 2 for its target or
\* value, 3 for the func of a call (0 when it never does)
MutationDepth(n, ctx) ==
    IF StatementMutates(n, ctx) THEN 1
    ELSE IF ExpressionMutates(TargetOf(n)) \/ ExpressionMutates(ValueOf(n)) THEN 2
    ELSE IF ValueOf(n).expr = "Call" /\ ExpressionMutates(ValueOf(n).func) THEN 3
    ELSE 0

\* the number of body levels between node i and node j of its walk
RECURSIVE LevelBelow(_, _, _)
LevelBelow(t, i, j) == IF j = i THEN 0 ELSE 1 + LevelBelow(t, i, t[j].parent)

\* the first child of the walk that mutates global state (0 when there is
\* none).  ast.walk is breadth-first from the function: every node of one
\* level comes before any node of the next, the statements of a nested
\* definition lie one level below it, targets and values one level below
\* their statement, and the nodes of one level come in source order
FirstGlobalMutation(t, walk, ctx) ==
    LET hits == {j \in SeqRange(walk) \ {Head(walk)} : MutationDepth(t[j], ctx) > 0}
        level(j) == LevelBelow(t, Head(walk), t[j].parent) + MutationDepth(t[j], ctx)
    IN  IF hits = {} THEN 0
        ELSE CHOOSE j \in hits :
                \A k \in hits :
                    \/ level(j) < level(k)
                    \/ level(j) = level(k) /\ j <= k

GlobalStateRule_evaluate(t, ctx, i) ==
    IF ~IsFunction(t, i) THEN Ok(<<>>)
    ELSE LET m == FirstGlobalMutation(t, Walk(t, i), ctx)
         IN  IF m = 0 THEN Ok(<<>>)
             ELSE Ok(<<Violation("Global State Mutation", GlobalState_penalty,
                                 m, t[i].name, TRUE)>>)

MixedIO_penalty == 8
MixedIO_indicators ==
    {"read", "write", "open", "close", "fetch", "send", "receive", "connect",
     "download", "upload", "import", "export", "print", "display"}

\* the indicators that occur as substrings of name.lower(), for the names of
\* the model
IndicatorsWithin(name) ==
    CASE name = "f" -> {}
      [] name = "__init__" -> {}
      [] OTHER -> {}

_is_pure_io_function(t, i) ==
    IsFunction(t, i) /\ IndicatorsWithin(t[i].name) \cap MixedIO_indicators # {}

\* a call of a name in file_ops or console_ops
_count_io_operations(t, i) ==
    Cardinality({j \in 1..Len(Walk(t, i)) : t[Walk(t, i)[j]].kind = "CallOpen"})

\* If/For/While/Try, arithmetic, comparisons, calls of other plain names
_count_logic_operations(t, i) ==
    Cardinality({j \in 1..Len(Walk(t, i)) : t[Walk(t, i)[j]].kind \in {"If", "Try"}})

MixedIOLogicRule_evaluate(t, ctx, i) ==
    IF ~IsFunction(t, i) THEN Ok(<<>>)
    ELSE IF _is_pure_io_function(t, i) THEN Ok(<<>>)
    ELSE IF _count_io_operations(t, i) > 0 /\ _count_logic_operations(t, i) > 0
         THEN Ok(<<Violation("Mixed I/O and Logic", MixedIO_penalty, i, t[i].name, TRUE)>>)
         ELSE Ok(<<>>)

Branch_threshold == 3
Branch_penalty == 2

\* for child in ast.walk(node): an If or a For/AsyncFor is counted; for any
\* other child the test isinstance(child, (ast.While, ast.AsyncWhile)) is
\* reached, and the ast module has no attribute AsyncWhile
RECURSIVE _count_branches(_, _)
_count_branches(t, walk) ==
    IF walk = <<>> THEN [exc |-> "none", count |-> 0]
    ELSE IF t[Head(walk)].kind \in {"If", "For", "AsyncFor"}
         THEN LET rest == _count_branches(t, Tail(walk))
              IN  [exc |-> rest.exc, count |-> rest.count + 1]
         ELSE [exc |-> "AttributeError", count |-> 0]

BranchExplosionRule_evaluate(t, ctx, i) ==
    IF ~IsFunction(t, i) THEN Ok(<<>>)
    ELSE LET c == _count_branches(t, Walk(t, i))
         IN  IF c.exc # "none" THEN Raise(c.exc)
             ELSE IF c.count > Branch_threshold
                  THEN Ok(<<Violation("Branch Explosion Risk",
                                      (c.count - Branch_threshold) * Branch_penalty,
                                      i, t[i].name, FALSE)>>)
                  ELSE Ok(<<>>)

ExceptionFlow_penalty == 5
\* try: pass / except: pass, an empty bare handler
ExceptionFlow_kinds == {"Try"}

ExceptionControlFlowRule_evaluate(t, ctx, i) ==
    IF ~IsFunction(t, i) THEN Ok(<<>>)
    ELSE LET m == FirstMatching(t, Walk(t, i), ExceptionFlow_kinds)
         IN  IF m = 0 THEN Ok(<<>>)
             ELSE Ok(<<Violation("Exception-Driven Control Flow", ExceptionFlow_penalty,
                                 m, t[i].name, TRUE)>>)

Constructor_penalty == 15
\* a call of open(...) and any import are side effects
Constructor_kinds == {"CallOpen", "Import"}

\* the first FunctionDef named __init__ in the class body (0: none)
InitMethod(t, c) ==
    LET inits == SelectSeq(Children(t, c),
                           LAMBDA j : t[j].kind = "FunctionDef" /\ t[j].name = "__init__")
    IN  IF inits = <<>> THEN 0 ELSE Head(inits)

ConstructorSideEffectsRule_evaluate(t, ctx, i) ==
    IF ~(i \in 1..Len(t) /\ t[i].kind = "ClassDef") THEN Ok(<<>>)
    ELSE LET init == InitMethod(t, i)
         IN  IF init # 0 /\ FirstMatching(t, Walk(t, init), Constructor_kinds) # 0
             THEN Ok(<<Violation("Constructor Side Effects", Constructor_penalty,
                                 init, "C.__init__", TRUE)>>)
             ELSE Ok(<<>>)

HiddenImports_penalty == 5
\* isinstance(child, (ast.Import, ast.ImportFrom))
HiddenImports_kinds == {"Import", "ImportFrom"}

\* self._allowed_imports
HiddenImports_allowed ==
    {"typing", "collections", "itertools", "functools", "datetime", "re", "json",
     "csv", "math", "random"}

\* external_indicators
HiddenImports_external ==
    {"requests", "numpy", "pandas", "scipy", "matplotlib", "flask", "django",
     "fastapi", "sqlalchemy", "pytest", "click", "black", "pylint", "mypy",
     "setuptools"}

\* the module names of an import statement, each the sequence of its dotted
\* parts: the aliases of an Import, the module of an ImportFrom (none for
\* `from . import x`); an import of the model that carries no modules field
\* is `import requests`
ModulesOf(n) == IF "modules" \in DOMAIN n THEN n.modules ELSE << <<"requests">> >>

\* top_level = module_name.split('.')[0]
_is_external_dependency(module_name) ==
    LET top_level == Head(module_name)
    IN  IF top_level \in HiddenImports_allowed THEN FALSE
        ELSE top_level \in HiddenImports_external

_is_problematic_import(n) ==
    \E k \in 1..Len(ModulesOf(n)) : _is_external_dependency(ModulesOf(n)[k])

\* the first import statement of the walk that is problematic (0 when none)
RECURSIVE FirstProblematicImport(_, _)
FirstProblematicImport(t, walk) ==
    IF walk = <<>> THEN 0
    ELSE IF t[Head(walk)].kind \in HiddenImports_kinds /\ _is_problematic_import(t[Head(walk)])
         THEN Head(walk)
         ELSE FirstProblematicImport(t, Tail(walk))

HiddenImportsRule_evaluate(t, ctx, i) ==
    IF ~IsFunction(t, i) THEN Ok(<<>>)
    ELSE LET m == FirstProblematicImport(t, Walk(t, i))
         IN  IF m = 0 THEN Ok(<<>>)
             ELSE Ok(<<Violation("Hidden Dependencies via Imports-in-Function",
                                 HiddenImports_penalty, m, t[i].name, FALSE)>>)

ParameterCount_penalty == 5
ParameterCount_threshold == 5

\* node.args of a function definition: the names of its parameters ("" for
\* an absent *args or **kwargs); a node of the model that carries no
\* parameters field has none
NoParameters ==
    [posonlyargs |-> <<>>, args |-> <<>>, kwonlyargs |-> <<>>, vararg |-> "", kwarg |-> ""]

ParametersOf(n) == IF "parameters" \in DOMAIN n THEN n.parameters ELSE NoParameters

\* self._self_param_exempt and param_name == 'self'
_should_ignore_parameter(param_name) == param_name = "self"

CountCounted(names) ==
    Cardinality({k \in 1..Len(names) : ~_should_ignore_parameter(names[k])})

CountOptional(name) == IF name # "" /\ ~_should_ignore_parameter(name) THEN 1 ELSE 0

_count_effective_parameters(t, i) ==
    IF ~IsFunction(t, i) THEN 0
    ELSE CountCounted(ParametersOf(t[i]).args)
         + CountCounted(ParametersOf(t[i]).posonlyargs)
         + CountCounted(ParametersOf(t[i]).kwonlyargs)
         + CountOptional(ParametersOf(t[i]).vararg)
         + CountOptional(ParametersOf(t[i]).kwarg)

ParameterCountRule_evaluate(t, ctx, i) ==
    IF ~IsFunction(t, i) THEN Ok(<<>>)
    ELSE IF _count_effective_parameters(t, i) > ParameterCount_threshold
         THEN Ok(<<Violation("Excessive Parameter Count", ParameterCount_penalty,
                             i, t[i].name, FALSE)>>)
         ELSE Ok(<<>>)

Observability_penalty == 5

\* a return with a value; the model has no logging call, assertion or
\* observable side-effect call
_calculate_observability_score(t, i) ==
    IF "Return" \in KindsIn(t, Walk(t, i)) THEN 1 ELSE 0

ObservabilityRule_evaluate(t, ctx, i) ==
    IF ~IsFunction(t, i) THEN Ok(<<>>)
    ELSE IF _calculate_observability_score(t, i) = 0
         THEN Ok(<<Violation("Low Observability", Observability_penalty,
                             i, t[i].name, FALSE)>>)
         ELSE Ok(<<>>)

ExternalDependency_penalty == 5
\* a call of open(...) is classified "File System"; no other call of the
\* model is classified
ExternalDependency_kinds == {"CallOpen"}

\* one violation per distinct dependency type detected
ExternalDependencyRule_evaluate(t, ctx, i) ==
    IF ~IsFunction(t, i) THEN Ok(<<>>)
    ELSE IF FirstMatching(t, Walk(t, i), ExternalDependency_kinds) # 0
         THEN Ok(<<Violation("External Dependency Count", ExternalDependency_penalty,
                             i, t[i].name, FALSE)>>)
         ELSE Ok(<<>>)

\* rule_registry.py: RuleRegistry._rules
get_all_rules ==
    << "FileIORule", "TimeUsageRule", "RandomnessRule", "GlobalStateRule",
       "MixedIOLogicRule", "BranchExplosionRule", "ExceptionControlFlowRule",
       "ConstructorSideEffectsRule", "HiddenImportsRule", "ParameterCountRule",
       "ObservabilityRule" >>

evaluate(rule, t, ctx, i) ==
    CASE rule = "FileIORule" -> FileIORule_evaluate(t, ctx, i)
      [] rule = "TimeUsageRule" -> TimeUsageRule_evaluate(t, ctx, i)
      [] rule = "RandomnessRule" -> RandomnessRule_evaluate(t, ctx, i)
      [] rule = "GlobalStateRule" -> GlobalStateRule_evaluate(t, ctx, i)
      [] rule = "MixedIOLogicRule" -> MixedIOLogicRule_evaluate(t, ctx, i)
      [] rule = "BranchExplosionRule" -> BranchExplosionRule_evaluate(t, ctx, i)
      [] rule = "ExceptionControlFlowRule" -> ExceptionControlFlowRule_evaluate(t, ctx, i)
      [] rule = "ConstructorSideEffectsRule" -> ConstructorSideEffectsRule_evaluate(t, ctx, i)
      [] rule = "HiddenImportsRule" -> HiddenImportsRule_evaluate(t, ctx, i)
      [] rule = "ParameterCountRule" -> ParameterCountRule_evaluate(t, ctx, i)
      [] rule = "ObservabilityRule" -> ObservabilityRule_evaluate(t, ctx, i)
      [] rule = "ExternalDependencyRule" -> ExternalDependencyRule_evaluate(t, ctx, i)

\* the rule_name property of each rule class
rule_name(rule) ==
    CASE rule = "FileIORule" -> "Direct File I/O in Logic"
      [] rule = "TimeUsageRule" -> "Non-Deterministic Time Usage"
      [] rule = "RandomnessRule" -> "Randomness Usage"
      [] rule = "GlobalStateRule" -> "Global State Mutation"
      [] rule = "MixedIOLogicRule" -> "Mixed I/O and Logic"
      [] rule = "BranchExplosionRule" -> "Branch Explosion Risk"
      [] rule = "ExceptionControlFlowRule" -> "Exception-Driven Control Flow"
      [] rule = "ConstructorSideEffectsRule" -> "Constructor Side Effects"
      [] rule = "HiddenImportsRule" -> "Hidden Dependencies via Imports-in-Function"
      [] rule = "ParameterCountRule" -> "Excessive Parameter Count"
      [] rule = "ObservabilityRule" -> "Low Observability"
      [] rule = "ExternalDependencyRule" -> "External Dependency Count"

\* RuleRegistry.__init__: one instance of each registered class, held in _rules
RuleRegistry == [rules |-> get_all_rules]

\* return self._rules
RuleRegistry_get_all_rules(self) == self.rules

RECURSIVE FirstNamed_last(_, _)
FirstNamed_last(rules, name) ==
    IF Len(rules) = 1 THEN Head(rules)
    ELSE IF rule_name(Head(rules)) = name THEN Head(rules)
    ELSE FirstNamed_last(Tail(rules), name)

get_rule_by_name_last(self, name) == FirstNamed_last(self.rules, name)

\* for rule in self._rules: if rule.rule_name == name: return rule
RECURSIVE FirstNamed(_, _)
FirstNamed(rules, name) ==
    IF rules = <<>> THEN "None"
    ELSE IF rule_name(Head(rules)) = name THEN Head(rules)
    ELSE FirstNamed(Tail(rules), name)

get_rule_by_name(self, name) == FirstNamed(self.rules, name)

\* the rules whose name is one of the five listed in get_red_flag_rules
get_red_flag_rules(self) ==
    SelectSeq(self.rules,
              LAMBDA r : rule_name(r) \in {"Constructor Side Effects", "Global State Mutation",
                                           "Non-Deterministic Time Usage", "Mixed I/O and Logic",
                                           "Exception-Driven Control Flow"})

-----------------------------------------------------------------------------
(* analyzer.py: TestabilityAnalyzer *)

\* An evaluation either returns (exc = "none") or raises; calls counts the
\* rule.evaluate calls entered.  A loop over pure evaluations is the list of
\* their results cut at the first one that raises.
RECURSIVE RaisedAt(_, _)
RaisedAt(results, k) ==
    IF k > Len(results) THEN 0
    ELSE IF results[k].exc # "none" THEN k
         ELSE RaisedAt(results, k + 1)

RECURSIVE CallsUpTo(_, _)
CallsUpTo(results, k) ==
    IF k = 0 THEN 0 ELSE results[k].calls + CallsUpTo(results, k - 1)

\* for rule in self.rule_registry.get_all_rules():
\*     violations.extend(rule.evaluate(node, context))
RuleLoop(results) ==
    LET k == RaisedAt(results, 1)
    IN  IF k # 0
        THEN [exc |-> results[k].exc, violations |-> <<>>, calls |-> k]
        ELSE [exc |-> "none",
              violations |-> Flatten([j \in 1..Len(results) |-> results[j].violations]),
              calls |-> Len(results)]

EvaluateRules(rules, t, ctx, i) ==
    RuleLoop([k \in 1..Len(rules) |-> evaluate(rules[k], t, ctx, i)])

EvaluateNodes(t, ctx, nodes) ==
    [k \in 1..Len(nodes) |-> EvaluateRules(get_all_rules, t, ctx, nodes[k])]

\* function_score = self.score_calculator.calculate_function_score(
\*     node.name, node.lineno, violations)
FunctionLoop(t, nodes, results) ==
    LET k == RaisedAt(results, 1)
    IN  IF k # 0
        THEN [exc |-> results[k].exc, value |-> <<>>, calls |-> CallsUpTo(results, k)]
        ELSE [exc |-> "none",
              value |-> [j \in 1..Len(nodes) |->
                            calculate_function_score(t[nodes[j]].name, nodes[j],
                                                     results[j].violations)],
              calls |-> CallsUpTo(results, Len(results))]

\* for node in ast.walk(tree): if isinstance(node, (FunctionDef, AsyncFunctionDef))
WalkedFunctions(t) == SelectSeq(ModuleWalk(t), LAMBDA j : t[j].kind \in FunctionKinds)

_analyze_functions(t, ctx) ==
    FunctionLoop(t, WalkedFunctions(t), EvaluateNodes(t, ctx, WalkedFunctions(t)))

IsConstructor(t, j) == t[j].kind = "FunctionDef" /\ t[j].name = "__init__"

\* for item in node.body: the items that are function definitions
BodyFunctions(t, c) == SelectSeq(Children(t, c), LAMBDA j : t[j].kind \in FunctionKinds)

\* one class: constructor_violations collects the violations of every item
\* that is a FunctionDef named __init__, method_scores scores the others
ClassBodyLoop(t, c, items, results) ==
    LET k == RaisedAt(results, 1)
        inits == SelectSeq([j \in 1..Len(items) |-> j], LAMBDA j : IsConstructor(t, items[j]))
        others == SelectSeq([j \in 1..Len(items) |-> j], LAMBDA j : ~IsConstructor(t, items[j]))
    IN  IF k # 0
        THEN [exc |-> results[k].exc, value |-> <<>>, calls |-> CallsUpTo(results, k)]
        ELSE [exc |-> "none",
              value |-> <<ClassScore(t[c].name, c,
                            Flatten([j \in 1..Len(inits) |-> results[inits[j]].violations]),
                            [j \in 1..Len(others) |->
                                calculate_function_score(t[items[others[j]]].name,
                                                         items[others[j]],
                                                         results[others[j]].violations)])>>,
              calls |-> CallsUpTo(results, Len(results))]

AnalyzeClass(t, ctx, c) ==
    ClassBodyLoop(t, c, BodyFunctions(t, c), EvaluateNodes(t, ctx, BodyFunctions(t, c)))

ClassLoop(results) ==
    LET k == RaisedAt(results, 1)
    IN  IF k # 0
        THEN [exc |-> results[k].exc, value |-> <<>>, calls |-> CallsUpTo(results, k)]
        ELSE [exc |-> "none",
              value |-> Flatten([j \in 1..Len(results) |-> results[j].value]),
              calls |-> CallsUpTo(results, Len(results))]

\* for node in ast.walk(tree): if isinstance(node, ast.ClassDef)
WalkedClasses(t) == SelectSeq(ModuleWalk(t), LAMBDA j : t[j].kind = "ClassDef")

_analyze_classes(t, ctx) ==
    ClassLoop([k \in 1..Len(WalkedClasses(t)) |-> AnalyzeClass(t, ctx, WalkedClasses(t)[k])])

\* analyze_file's own computation of the file score
OverallScore_empty_zero(fscores, cscores) ==
    LET all_scores == [i \in 1..Len(fscores) |-> fscores[i].final_score]
                      \o MethodFinalScores(cscores)
                      \o ConstructorScores(cscores, 100, 0)
    IN  IF all_scores # <<>> THEN MinOfSeq(all_scores) ELSE 0

\* the computation with a constructor score that is not held at zero
OverallScore_unclamped(fscores, cscores) ==
    LET all_scores == [i \in 1..Len(fscores) |-> fscores[i].final_score]
                      \o MethodFinalScores(cscores)
                      \o ConstructorScores(cscores, 100, 0 - 1000)
    IN  IF all_scores # <<>> THEN MinOfSeq(all_scores) ELSE 100

OverallScore(fscores, cscores) ==
    LET all_scores == [i \in 1..Len(fscores) |-> fscores[i].final_score]
                      \o MethodFinalScores(cscores)
                      \o ConstructorScores(cscores, 100, 0)
    IN  IF all_scores # <<>> THEN MinOfSeq(all_scores) ELSE 100

RECURSIVE FunctionRedFlags(_)
FunctionRedFlags(fscores) ==
    IF fscores = <<>> THEN <<>>
    ELSE SelectRedFlags(Head(fscores).violations) \o FunctionRedFlags(Tail(fscores))

RECURSIVE AllConstructorViolations(_)
AllConstructorViolations(cscores) ==
    IF cscores = <<>> THEN <<>>
    ELSE Head(cscores).constructor_violations \o AllConstructorViolations(Tail(cscores))

CollectRedFlags(fscores, cscores) ==
    FunctionRedFlags(fscores) \o AllConstructorViolations(cscores)

\* the result of a failed parse, had it been classified like any score of 0
ParseErrorScore_classified(path) ==
    FileScore(path, 0, classify_file_score(0), <<>>, <<>>, <<>>)

ParseErrorScore(path) == FileScore(path, 0, "Parse Error", <<>>, <<>>, <<>>)

NoResult == FileScore("", 0, "", <<>>, <<>>, <<>>)

InitAnalysis ==
    /\ tree = NoTree
    /\ context = NoContext
    /\ function_scores = <<>>
    /\ class_scores = <<>>
    /\ overall_score = 0
    /\ classification = ""
    /\ result = NoResult
    /\ exc = "none"
    /\ context_builds = 0
    /\ rule_calls = 0
    /\ registry = RuleRegistry

NoCall == [fn |-> "none"]

Init ==
    /\ pc = "start"
    /\ args = NoCall
    /\ ret = NoCall
    /\ file \in Files
    /\ InitAnalysis

\* tree = parse_file(file_path); if tree is None: return FileScore(...)
Parse ==
    /\ pc = "start"
    /\ LET r == parse_file(file)
       IN  IF r.exc # "none"
           THEN /\ pc' = "raised"
                /\ exc' = r.exc
                /\ UNCHANGED <<tree, result>>
           ELSE IF r.tree.is_none
           THEN /\ pc' = "done"
                /\ result' = ParseErrorScore(file.path)
                /\ UNCHANGED <<tree, exc>>
           ELSE /\ pc' = "parsed"
                /\ tree' = r.tree
                /\ UNCHANGED <<result, exc>>
    /\ UNCHANGED <<args, ret, file, context, function_scores, class_scores,
                   overall_score, classification, context_builds, rule_calls,
                   registry>>

\* context = build_context(tree)
BuildContext ==
    /\ pc = "parsed"
    /\ context' = build_context(tree.nodes)
    /\ context_builds' = context_builds + 1
    /\ pc' = "context"
    /\ UNCHANGED <<args, ret, file, tree, function_scores, class_scores,
                   overall_score, classification, result, exc, rule_calls,
                   registry>>

\* function_scores = self._analyze_functions(tree, context)
AnalyzeFunctions ==
    /\ pc = "context"
    /\ LET r == _analyze_functions(tree.nodes, context)
       IN  /\ rule_calls' = rule_calls + r.calls
           /\ IF r.exc # "none"
              THEN /\ pc' = "raised"
                   /\ exc' = r.exc
                   /\ UNCHANGED function_scores
              ELSE /\ pc' = "functions"
                   /\ function_scores' = r.value
                   /\ UNCHANGED exc
    /\ UNCHANGED <<args, ret, file, tree, context, class_scores,
                   overall_score, classification, result, context_builds,
                   registry>>

\* class_scores = self._analyze_classes(tree, context)
AnalyzeClasses ==
    /\ pc = "functions"
    /\ LET r == _analyze_classes(tree.nodes, context)
       IN  /\ rule_calls' = rule_calls + r.calls
           /\ IF r.exc # "none"
              THEN /\ pc' = "raised"
                   /\ exc' = r.exc
                   /\ UNCHANGED class_scores
              ELSE /\ pc' = "classes"
                   /\ class_scores' = r.value
                   /\ UNCHANGED exc
    /\ UNCHANGED <<args, ret, file, tree, context, function_scores,
                   overall_score, classification, result, context_builds,
                   registry>>

\* all_scores = ...; overall_score = min(all_scores) or 100
Aggregate ==
    /\ pc = "classes"
    /\ overall_score' = OverallScore(function_scores, class_scores)
    /\ pc' = "aggregated"
    /\ UNCHANGED <<args, ret, file, tree, context, function_scores, class_scores,
                   classification, result, exc, context_builds, rule_calls,
                   registry>>

\* classification = self.threshold_classifier.classify_file_score(overall_score)
Classify ==
    /\ pc = "aggregated"
    /\ classification' = classify_file_score(overall_score)
    /\ pc' = "classified"
    /\ UNCHANGED <<args, ret, file, tree, context, function_scores, class_scores,
                   overall_score, result, exc, context_builds, rule_calls,
                   registry>>

\* red_flags = ...; return FileScore(...)
ReturnFileScore ==
    /\ pc = "classified"
    /\ result' = FileScore(file.path, overall_score, classification, function_scores,
                           class_scores, CollectRedFlags(function_scores, class_scores))
    /\ pc' = "done"
    /\ UNCHANGED <<args, ret, file, tree, context, function_scores, class_scores,
                   overall_score, classification, exc, context_builds, rule_calls,
                   registry>>

Next ==
    \/ Parse
    \/ BuildContext
    \/ AnalyzeFunctions
    \/ AnalyzeClasses
    \/ Aggregate
    \/ Classify
    \/ ReturnFileScore

Spec == Init /\ [][Next]_vars

Terminated == pc \in {"done", "raised"}

\* analyze_file runs synchronously on one thread: a step that can be taken is
\* taken
SpecLive == Spec /\ WF_vars(Next)

-----------------------------------------------------------------------------
(* Direct calls of the pure operations, on bounded inputs *)

NoFile == [path |-> "a.py", status |-> "ok", nodes |-> <<>>]

\* violations as the rules build them, and one that deducts nothing
SampleViolations ==
    { Violation("Direct File I/O in Logic", FileIO_penalty, 1, "f", FALSE),
      Violation("Non-Deterministic Time Usage", TimeUsage_penalty, 1, "f", TRUE),
      Violation("Excessive Parameter Count", ParameterCount_penalty, 1, "f", FALSE),
      Violation("Branch Explosion Risk", 30 * Branch_penalty, 1, "f", FALSE),
      Violation("Custom", 0, 1, "f", FALSE) }

InitScore ==
    /\ pc = "call"
    /\ args \in [fn : {"calculate_function_score"}, function_name : {"f"},
                 line_number : {1},
                 violations : SeqsUpTo(SampleViolations, MaxViolations)]
    /\ ret = NoCall
    /\ file = NoFile
    /\ InitAnalysis

CallCalculateFunctionScore ==
    /\ pc = "call"
    /\ args.fn = "calculate_function_score"
    /\ ret' = [fn |-> args.fn,
               value |-> calculate_function_score(args.function_name, args.line_number,
                                                  args.violations)]
    /\ pc' = "returned"
    /\ UNCHANGED <<args, analysisVars>>

NextScore == CallCalculateFunctionScore

SpecScore == InitScore /\ [][NextScore]_vars

BigBranch == Violation("Branch Explosion Risk", 30 * Branch_penalty, 1, "f", FALSE)
ZeroPoints == Violation("Custom", 0, 1, "C.__init__", FALSE)

\* function and method scores of 100, 40 and 0
AggFunctionScores ==
    {calculate_function_score("f", 1, V) :
        V \in {<<>>, <<BigBranch>>, <<BigBranch, BigBranch>>}}

\* a clean constructor, one whose violations deduct nothing, and dirty ones
AggConstructorLists == {<<>>, <<ZeroPoints>>, <<BigBranch>>, <<BigBranch, BigBranch>>}

AggClassScores ==
    {ClassScore("C", 1, V, M) :
        V \in AggConstructorLists, M \in SeqsUpTo(AggFunctionScores, MaxMethods)}

InitAggregate ==
    /\ pc = "call"
    /\ args \in [fn : {"aggregate_file_score"},
                 function_scores : SeqsUpTo(AggFunctionScores, MaxFunctions),
                 class_scores : SeqsUpTo(AggClassScores, MaxClasses)]
    /\ ret = NoCall
    /\ file = NoFile
    /\ InitAnalysis

CallAggregateFileScore ==
    /\ pc = "call"
    /\ args.fn = "aggregate_file_score"
    /\ ret' = [fn |-> args.fn,
               value |-> aggregate_file_score(args.function_scores, args.class_scores)]
    /\ pc' = "returned"
    /\ UNCHANGED <<args, analysisVars>>

\* analyze_file's lines 58-77 run on the same lists as its locals
InlineFileScore ==
    /\ pc = "returned"
    /\ ret.fn = "aggregate_file_score"
    /\ function_scores' = args.function_scores
    /\ class_scores' = args.class_scores
    /\ overall_score' = OverallScore(args.function_scores, args.class_scores)
    /\ pc' = "compared"
    /\ UNCHANGED <<args, ret, file, tree, context, classification, result, exc,
                   context_builds, rule_calls, registry>>

NextAggregate ==
    \/ CallAggregateFileScore
    \/ InlineFileScore

SpecAggregate == InitAggregate /\ [][NextAggregate]_vars

InitClassify ==
    /\ pc = "call"
    /\ args \in [fn : {"classify"}, score : (0 - ScoreMargin)..(100 + ScoreMargin)]
    /\ ret = NoCall
    /\ file = NoFile
    /\ InitAnalysis

CallClassifyFileScore ==
    /\ pc = "call"
    /\ args.fn = "classify"
    /\ ret' = [fn |-> "classify_file_score", value |-> classify_file_score(args.score)]
    /\ pc' = "returned"
    /\ UNCHANGED <<args, analysisVars>>

CallClassifyFunctionScore ==
    /\ pc = "call"
    /\ args.fn = "classify"
    /\ ret' = [fn |-> "classify_function_score",
               value |-> classify_function_score(args.score)]
    /\ pc' = "returned"
    /\ UNCHANGED <<args, analysisVars>>

NextClassify ==
    \/ CallClassifyFileScore
    \/ CallClassifyFunctionScore

SpecClassify == InitClassify /\ [][NextClassify]_vars

-----------------------------------------------------------------------------
(* analyzer.py: analyze_file as one call, and analyze_directory *)

ScoreTree(path, fr, cr) ==
    IF fr.exc # "none" THEN [exc |-> fr.exc, value |-> NoResult]
    ELSE IF cr.exc # "none" THEN [exc |-> cr.exc, value |-> NoResult]
    ELSE [exc |-> "none",
          value |-> FileScore(path, OverallScore(fr.value, cr.value),
                              classify_file_score(OverallScore(fr.value, cr.value)),
                              fr.value, cr.value,
                              CollectRedFlags(fr.value, cr.value))]

AnalyzeTree(path, t, ctx) ==
    ScoreTree(path, _analyze_functions(t, ctx), _analyze_classes(t, ctx))

AnalyzeParsed(f, p) ==
    IF p.exc # "none" THEN [exc |-> p.exc, value |-> NoResult]
    ELSE IF p.tree.is_none THEN [exc |-> "none", value |-> ParseErrorScore(f.path)]
    ELSE AnalyzeTree(f.path, p.tree.nodes, build_context(p.tree.nodes))

analyze_file(f) == AnalyzeParsed(f, parse_file(f))

\* file_utils.py.  The names a directory walk may meet.
DirNames == {"a.py", "test_a.py", "__init__.py", "notes.txt"}

\* file.endswith(".py")
EndsWithPy(name) == name \in {"a.py", "test_a.py", "__init__.py"}

\* any(indicator in name for indicator in test_indicators), name lower-cased
is_likely_test_file(name) == name \in {"test_a.py", "__init__.py"}

\* what a directory entry may hold
DirContents ==
    {[status |-> "ok", nodes |-> <<>>],
     [status |-> "ok", nodes |-> <<Node("Import", "", 0)>>],
     [status |-> "ok", nodes |-> <<Node("FunctionDef", "f", 0)>>],
     [status |-> "syntax_error", nodes |-> <<Node("FunctionDef", "f", 0)>>],
     [status |-> "decode_error", nodes |-> <<>>]}

\* regular files, and a dangling symbolic link (os.walk lists it among the
\* files, Path.is_file() is False for it)
DirEntries ==
    {[name |-> n, is_file |-> TRUE, status |-> c.status, nodes |-> c.nodes] :
        n \in DirNames, c \in DirContents}
    \cup {[name |-> "a.py", is_file |-> FALSE, status |-> "missing", nodes |-> <<>>]}

FileOf(e) == [path |-> e.name, status |-> e.status, nodes |-> e.nodes]

_find_python_files_recursive(listing) == SelectSeq(listing, LAMBDA e : EndsWithPy(e.name))

find_python_files(listing) == _find_python_files_recursive(listing)

filter_non_test_files(file_paths) ==
    SelectSeq(file_paths, LAMBDA e : ~is_likely_test_file(e.name))

InitDirectory ==
    /\ pc = "dir_start"
    /\ args \in [fn : {"analyze_directory"}, listing : SeqsUpTo(DirEntries, MaxFiles)]
    /\ ret = NoCall
    /\ file = NoFile
    /\ InitAnalysis

\* all_files = find_python_files([directory_path])
\* python_files = filter_non_test_files(all_files)
FindFiles ==
    /\ pc = "dir_start"
    /\ ret' = [fn |-> "analyze_directory",
               python_files |-> filter_non_test_files(find_python_files(args.listing)),
               next |-> 1,
               results |-> <<>>]
    /\ pc' = "dir_loop"
    /\ UNCHANGED <<args, analysisVars>>

\* for file_path in python_files: if file_path.is_file(): results.append(
\*     self.analyze_file(str(file_path)))
AnalyzeNextFile ==
    /\ pc = "dir_loop"
    /\ ret.next <= Len(ret.python_files)
    /\ LET e == ret.python_files[ret.next]
       IN  IF ~e.is_file
           THEN /\ ret' = [ret EXCEPT !.next = @ + 1]
                /\ UNCHANGED <<pc, exc>>
           ELSE IF analyze_file(FileOf(e)).exc # "none"
           THEN /\ pc' = "raised"
                /\ exc' = analyze_file(FileOf(e)).exc
                /\ UNCHANGED ret
           ELSE /\ ret' = [ret EXCEPT !.next = @ + 1,
                                      !.results = Append(@, analyze_file(FileOf(e)).value)]
                /\ UNCHANGED <<pc, exc>>
    /\ UNCHANGED <<args, file, tree, context, function_scores, class_scores,
                   overall_score, classification, result, context_builds, rule_calls,
                   registry>>

\* return results
ReturnResults ==
    /\ pc = "dir_loop"
    /\ ret.next > Len(ret.python_files)
    /\ pc' = "done"
    /\ UNCHANGED <<args, ret, analysisVars>>

NextDirectory ==
    \/ FindFiles
    \/ AnalyzeNextFile
    \/ ReturnResults

SpecDirectory == InitDirectory /\ [][NextDirectory]_vars

-----------------------------------------------------------------------------
(* Direct calls of ParameterCountRule.evaluate on function definitions *)

\* "p" stands for any parameter name other than self; Python allows a name
\* once in a signature
CountSelf(names) == Cardinality({k \in 1..Len(names) : names[k] = "self"})

ParameterLists ==
    {a \in [posonlyargs : SeqsUpTo({"self", "p"}, 1),
            args : {s \in SeqsUpTo({"self", "p"}, MaxParameters) : CountSelf(s) <= 1},
            kwonlyargs : SeqsUpTo({"self", "p"}, 1),
            vararg : {"", "args", "self"},
            kwarg : {"", "kwargs", "self"}] :
        CountSelf(a.posonlyargs) + CountSelf(a.args) + CountSelf(a.kwonlyargs)
            + CountSelf(<<a.vararg, a.kwarg>>) <= 1}

ParameterNodes ==
    {[kind |-> k, name |-> "f", parent |-> 0, parameters |-> a] :
        k \in FunctionKinds, a \in ParameterLists}

InitParameters ==
    /\ pc = "call"
    /\ args \in [fn : {"evaluate"}, rule : {"ParameterCountRule"}, node : ParameterNodes]
    /\ ret = NoCall
    /\ file = NoFile
    /\ InitAnalysis

EvaluateParameterCount ==
    /\ pc = "call"
    /\ args.fn = "evaluate"
    /\ args.rule = "ParameterCountRule"
    /\ ret' = [fn |-> "evaluate",
               outcome |-> ParameterCountRule_evaluate(<<args.node>>, NoContext, 1)]
    /\ pc' = "returned"
    /\ UNCHANGED <<args, analysisVars>>

NextParameters == EvaluateParameterCount

SpecParameters == InitParameters /\ [][NextParameters]_vars

-----------------------------------------------------------------------------
(* Direct calls of HiddenImportsRule.evaluate on functions whose bodies are
   import statements *)

\* json and json.decoder are allow-listed, requests and requests.adapters are
\* known external packages, os and os.path are neither
ImportModules ==
    {<<"json">>, <<"json", "decoder">>, <<"os">>, <<"os", "path">>,
     <<"requests">>, <<"requests", "adapters">>}

\* import m, import m1, m2, from m import x, from . import x
ImportStatements ==
    {[kind |-> "Import", name |-> "", parent |-> 1, modules |-> ms] :
        ms \in {q \in SeqsUpTo(ImportModules, MaxAliases) : q # <<>>}}
    \cup {[kind |-> "ImportFrom", name |-> "", parent |-> 1, modules |-> ms] :
        ms \in SeqsUpTo(ImportModules, 1)}

ImportTrees ==
    {<<[kind |-> k, name |-> "f", parent |-> 0]>> \o body :
        k \in FunctionKinds, body \in SeqsUpTo(ImportStatements, MaxImports)}

InitImports ==
    /\ pc = "call"
    /\ args \in [fn : {"evaluate"}, rule : {"HiddenImportsRule"}, nodes : ImportTrees]
    /\ ret = NoCall
    /\ file = NoFile
    /\ InitAnalysis

EvaluateHiddenImports ==
    /\ pc = "call"
    /\ args.fn = "evaluate"
    /\ args.rule = "HiddenImportsRule"
    /\ ret' = [fn |-> "evaluate",
               outcome |-> HiddenImportsRule_evaluate(args.nodes, NoContext, 1)]
    /\ pc' = "returned"
    /\ UNCHANGED <<args, analysisVars>>

NextImports == EvaluateHiddenImports

SpecImports == InitImports /\ [][NextImports]_vars

-----------------------------------------------------------------------------
(* Direct calls of GlobalStateRule.evaluate on functions with flat bodies *)

NameExpr(id) == [expr |-> "Name", id |-> id]
AttributeExpr(value_id, attr) == [expr |-> "Attribute", value_id |-> value_id, attr |-> attr]
CallExpr(func) == [expr |-> "Call", func |-> func]
Statement(kind, target, value) ==
    [kind |-> kind, name |-> "", parent |-> 1, target |-> target, value |-> value]

\* global g / g = 1, x = 1, requests = 1 / g += 1, x += 1 /
\* config.debug = 1, obj.debug = 1 / config.n += 1 / x = config.debug /
\* return os.getcwd() / registry.register(x), registry.get(x), obj.append(x) /
\* return 1
GlobalStatements ==
    {Statement("Global", NoExpr, NoExpr)}
    \cup {Statement("Assign", NameExpr(id), NoExpr) : id \in {"g", "x", "requests"}}
    \cup {Statement("AugAssign", NameExpr(id), NoExpr) : id \in {"g", "x"}}
    \cup {Statement("Assign", AttributeExpr(o, "debug"), NoExpr) : o \in {"config", "obj"}}
    \cup {Statement("AugAssign", AttributeExpr("config", "n"), NoExpr)}
    \cup {Statement("Assign", NameExpr("x"), AttributeExpr("config", "debug"))}
    \cup {Statement("Return", NoExpr, CallExpr(AttributeExpr("os", "getcwd")))}
    \cup {Statement("Expr", NoExpr, CallExpr(AttributeExpr(o, m))) :
            <<o, m>> \in {<<"registry", "register">>, <<"registry", "get">>,
                          <<"obj", "append">>}}
    \cup {Statement("Return", NoExpr, NoExpr)}

\* a function whose body holds a definition with one statement, and one
\* statement of its own before or after it
NestedGlobalTrees ==
    {<<Node("FunctionDef", "f", 0), Node(k, "h", 1), [inner EXCEPT !.parent = 2], outer>> :
        k \in DefKinds, inner \in GlobalStatements, outer \in GlobalStatements}
    \cup
    {<<Node("FunctionDef", "f", 0), outer, Node(k, "h", 1), [inner EXCEPT !.parent = 3]>> :
        k \in DefKinds, inner \in GlobalStatements, outer \in GlobalStatements}

GlobalTrees ==
    {<<[kind |-> k, name |-> "f", parent |-> 0]>> \o body :
        k \in FunctionKinds, body \in SeqsUpTo(GlobalStatements, MaxStatements)}
    \cup NestedGlobalTrees

\* the context of a file that holds the function: a global declaration of
\* the function is among its global variables
GlobalContexts(t) ==
    {[NoContext EXCEPT !.imports = i, !.global_variables = g] :
        i \in {{}, {"requests"}, {"requests.adapters"}},
        g \in {G \in {{}, {"g"}} : (\E j \in 1..Len(t) : t[j].kind = "Global") => "g" \in G}}

InitGlobals ==
    /\ pc = "call"
    /\ args \in {a \in [fn : {"evaluate"}, rule : {"GlobalStateRule"}, nodes : GlobalTrees,
                        context : [imports : SUBSET {"requests", "requests.adapters"},
                                   global_variables : SUBSET {"g"},
                                   functions : {<<>>}, classes : {<<>>}]] :
                    a.context \in GlobalContexts(a.nodes)}
    /\ ret = NoCall
    /\ file = NoFile
    /\ InitAnalysis

EvaluateGlobalState ==
    /\ pc = "call"
    /\ args.fn = "evaluate"
    /\ args.rule = "GlobalStateRule"
    /\ ret' = [fn |-> "evaluate",
               outcome |-> GlobalStateRule_evaluate(args.nodes, args.context, 1)]
    /\ pc' = "returned"
    /\ UNCHANGED <<args, analysisVars>>

NextGlobals == EvaluateGlobalState

SpecGlobals == InitGlobals /\ [][NextGlobals]_vars

-----------------------------------------------------------------------------
(* Direct calls of the rules' evaluate on the nodes of sample trees *)

\* __all__ of the rules package
AllRuleClasses ==
    {"ExternalDependencyRule", "FileIORule", "TimeUsageRule", "RandomnessRule",
     "GlobalStateRule", "MixedIOLogicRule", "BranchExplosionRule",
     "ExceptionControlFlowRule", "ConstructorSideEffectsRule", "HiddenImportsRule",
     "ParameterCountRule", "ObservabilityRule"}

RuleStatementKinds == StatementKinds \cup {"CallTime", "CallRandom", "Try"}

\* bodies of up to MaxBody statements; a Try ends its body
RuleBodies ==
    {b \in SeqsUpTo(RuleStatementKinds, MaxBody) :
        \A k \in 1..Len(b) : b[k] = "Try" => k = Len(b)}

SevenParameters ==
    [posonlyargs |-> <<>>, args |-> <<"p", "p", "p", "p", "p", "p", "p">>,
     kwonlyargs |-> <<>>, vararg |-> "", kwarg |-> ""]

\* what encloses a body: nothing (module level), a function, a function
\* with seven parameters, a class, or the constructor of a class
RuleHeaders ==
    {<<>>,
     <<Node("FunctionDef", "f", 0)>>,
     <<Node("AsyncFunctionDef", "f", 0)>>,
     <<[kind |-> "FunctionDef", name |-> "f", parent |-> 0, parameters |-> SevenParameters]>>,
     <<Node("ClassDef", "C", 0)>>,
     <<Node("ClassDef", "C", 0), Node("FunctionDef", "__init__", 1)>>}

RuleTrees ==
    {h \o [k \in 1..Len(b) |-> Node(b[k], "", Len(h))] : h \in RuleHeaders, b \in RuleBodies}

\* the objects an evaluation was given, after the assignments it made
RECURSIVE ContextAfterEvaluate(_, _)
ContextAfterEvaluate(writes, ctx) ==
    IF writes = <<>> THEN ctx
    ELSE LET w == Head(writes)
         IN  ContextAfterEvaluate(Tail(writes),
                 IF w.object = "context" THEN [ctx EXCEPT ![w.field] = w.value] ELSE ctx)

RECURSIVE NodesAfterEvaluate(_, _)
NodesAfterEvaluate(writes, t) ==
    IF writes = <<>> THEN t
    ELSE LET w == Head(writes)
         IN  NodesAfterEvaluate(Tail(writes),
                 IF w.object = "node"
                 THEN [t EXCEPT ![w.index] = [@ EXCEPT ![w.field] = w.value]]
                 ELSE t)

RECURSIVE RegistryAfterEvaluate(_, _)
RegistryAfterEvaluate(writes, reg) ==
    IF writes = <<>> THEN reg
    ELSE LET w == Head(writes)
         IN  RegistryAfterEvaluate(Tail(writes),
                 IF w.object = "registry" THEN [reg EXCEPT ![w.field] = w.value] ELSE reg)

Pending == [exc |-> "pending", violations |-> <<>>, writes |-> <<>>]

\* node 0 is the Module node itself
InitRules ==
    /\ pc = "rule_start"
    /\ args \in {a \in [fn : {"evaluate"}, rule : AllRuleClasses, nodes : RuleTrees,
                        node : 0..(MaxBody + 2)] : a.node <= Len(a.nodes)}
    /\ ret = NoCall
    /\ file = NoFile
    /\ tree = [is_none |-> FALSE, nodes |-> args.nodes]
    /\ context = build_context(args.nodes)
    /\ function_scores = <<>>
    /\ class_scores = <<>>
    /\ overall_score = 0
    /\ classification = ""
    /\ result = NoResult
    /\ exc = "none"
    /\ context_builds = 1
    /\ rule_calls = 0
    /\ registry = RuleRegistry

\* rule.evaluate(node, context)
EvaluateFirst ==
    /\ pc = "rule_start"
    /\ LET outcome == evaluate(args.rule, tree.nodes, context, args.node)
       IN  /\ ret' = [fn |-> "evaluate", first |-> outcome, again |-> Pending]
           /\ context' = ContextAfterEvaluate(outcome.writes, context)
           /\ tree' = [tree EXCEPT !.nodes = NodesAfterEvaluate(outcome.writes, @)]
           /\ registry' = RegistryAfterEvaluate(outcome.writes, registry)
    /\ rule_calls' = rule_calls + 1
    /\ pc' = "evaluated"
    /\ UNCHANGED <<args, file, function_scores, class_scores, overall_score,
                   classification, result, exc, context_builds>>

\* any rule evaluated on any node of the same tree, its result dropped
EvaluateOther ==
    /\ pc = "evaluated"
    /\ rule_calls < MaxEvaluations
    /\ \E r \in AllRuleClasses, n \in 0..Len(tree.nodes) :
          LET outcome == evaluate(r, tree.nodes, context, n)
          IN  /\ context' = ContextAfterEvaluate(outcome.writes, context)
              /\ tree' = [tree EXCEPT !.nodes = NodesAfterEvaluate(outcome.writes, @)]
              /\ registry' = RegistryAfterEvaluate(outcome.writes, registry)
    /\ rule_calls' = rule_calls + 1
    /\ UNCHANGED <<pc, args, ret, file, function_scores, class_scores, overall_score,
                   classification, result, exc, context_builds>>

\* the first rule evaluated again on the same node
EvaluateAgain ==
    /\ pc = "evaluated"
    /\ LET outcome == evaluate(args.rule, tree.nodes, context, args.node)
       IN  /\ ret' = [ret EXCEPT !.again = outcome]
           /\ context' = ContextAfterEvaluate(outcome.writes, context)
           /\ tree' = [tree EXCEPT !.nodes = NodesAfterEvaluate(outcome.writes, @)]
           /\ registry' = RegistryAfterEvaluate(outcome.writes, registry)
    /\ rule_calls' = rule_calls + 1
    /\ pc' = "reevaluated"
    /\ UNCHANGED <<args, file, function_scores, class_scores, overall_score,
                   classification, result, exc, context_builds>>

NextRules ==
    \/ EvaluateFirst
    \/ EvaluateOther
    \/ EvaluateAgain

SpecRules == InitRules /\ [][NextRules]_vars

-----------------------------------------------------------------------------
(* The rule loop that collects the violations of one function, method or
   constructor, one rule at a time *)

\* a loop that puts each rule's violations in front of those collected
extend_front(violations, rule_violations) == rule_violations \o violations

\* violations.extend(rule_violations)
extend(violations, rule_violations) == violations \o rule_violations

\* violations = [] before the loop, on a function, method or constructor node
InitRuleLoop ==
    /\ pc = "loop"
    /\ args \in {a \in [fn : {"rule_loop"}, nodes : RuleTrees, node : 1..(MaxBody + 2)] :
                    IsFunction(a.nodes, a.node)}
    /\ ret = [fn |-> "rule_loop", violations |-> <<>>, rules_done |-> 0]
    /\ file = NoFile
    /\ InitAnalysis

\* one turn of `for rule in self.rule_registry.get_all_rules()`: an exception
\* of evaluate leaves the loop, and the loop ends after the last rule
RuleLoopStep ==
    /\ pc = "loop"
    /\ ret.rules_done < Len(RuleRegistry_get_all_rules(registry))
    /\ LET rule == RuleRegistry_get_all_rules(registry)[ret.rules_done + 1]
           outcome == evaluate(rule, args.nodes, build_context(args.nodes), args.node)
       IN  IF outcome.exc # "none"
           THEN /\ pc' = "raised"
                /\ exc' = outcome.exc
                /\ ret' = ret
           ELSE /\ pc' = IF ret.rules_done + 1 = Len(RuleRegistry_get_all_rules(registry))
                         THEN "returned" ELSE "loop"
                /\ exc' = exc
                /\ ret' = [ret EXCEPT !.violations = extend(@, outcome.violations),
                                      !.rules_done = @ + 1]
    /\ UNCHANGED <<args, file, tree, context, function_scores, class_scores,
                   overall_score, classification, result, context_builds,
                   rule_calls, registry>>

NextRuleLoop == RuleLoopStep

SpecRuleLoop == InitRuleLoop /\ [][NextRuleLoop]_vars

-----------------------------------------------------------------------------
(* The name-based red-flag accessors applied to what a registered rule
   returns *)

\* ThresholdClassifier.red_flag_rules
red_flag_rules ==
    {"Constructor Side Effects", "Global State Mutation", "Non-Deterministic Time Usage",
     "Mixed I/O and Logic", "Exception-Driven Control Flow"}

\* [v for v in violations if v.rule_name in self.red_flag_rules]
detect_red_flags(violations) ==
    SelectSeq(violations, LAMBDA v : v.rule_name \in red_flag_rules)

InitRedFlags ==
    /\ pc = "call"
    /\ args \in {a \in [fn : {"detect_red_flags"}, rule : SeqRange(get_all_rules),
                        nodes : RuleTrees, node : 0..(MaxBody + 2)] :
                    a.node <= Len(a.nodes)}
    /\ ret = NoCall
    /\ file = NoFile
    /\ InitAnalysis

\* violations = rule.evaluate(node, context), then detect_red_flags(violations)
\* and get_red_flag_rules(); an exception of evaluate ends the call
DetectRedFlags ==
    /\ pc = "call"
    /\ args.fn = "detect_red_flags"
    /\ LET outcome == evaluate(args.rule, args.nodes, build_context(args.nodes), args.node)
       IN  IF outcome.exc # "none"
           THEN \* evaluate raised: no list is bound, nothing is classified
                /\ pc' = "raised"
                /\ exc' = outcome.exc
                /\ ret' = ret
           ELSE /\ pc' = "returned"
                /\ exc' = exc
                /\ ret' = [fn |-> "detect_red_flags",
                           violations |-> outcome.violations,
                           detected |-> detect_red_flags(outcome.violations),
                           red_flag_rules |-> get_red_flag_rules(registry)]
    /\ UNCHANGED <<args, file, tree, context, function_scores, class_scores,
                   overall_score, classification, result, context_builds,
                   rule_calls, registry>>

NextRedFlags == DetectRedFlags

SpecRedFlags == InitRedFlags /\ [][NextRedFlags]_vars

-----------------------------------------------------------------------------
(* Calls of the registry's operations, logged in the order made *)

\* the names looked up: every rule class's name, registered or not, and two
\* names no rule has
LookupNames == {rule_name(r) : r \in AllRuleClasses} \cup {"", "No Such Rule"}

InitRegistry ==
    /\ pc = "registry"
    /\ args = NoCall
    /\ ret = [fn |-> "registry", calls |-> <<>>]
    /\ file = NoFile
    /\ InitAnalysis

CallGetAllRules ==
    /\ pc = "registry"
    /\ Len(ret.calls) < MaxRegistryCalls
    /\ args' = [fn |-> "get_all_rules"]
    /\ ret' = [ret EXCEPT !.calls = Append(@, [fn |-> "get_all_rules", name |-> "",
                                                value |-> RuleRegistry_get_all_rules(registry)])]
    /\ UNCHANGED <<pc, analysisVars>>

CallGetRuleByName ==
    /\ pc = "registry"
    /\ Len(ret.calls) < MaxRegistryCalls
    /\ \E name \in LookupNames :
          /\ args' = [fn |-> "get_rule_by_name", name |-> name]
          /\ ret' = [ret EXCEPT !.calls = Append(@, [fn |-> "get_rule_by_name", name |-> name,
                                                      value |-> get_rule_by_name(registry, name)])]
    /\ UNCHANGED <<pc, analysisVars>>

CallGetRedFlagRules ==
    /\ pc = "registry"
    /\ Len(ret.calls) < MaxRegistryCalls
    /\ args' = [fn |-> "get_red_flag_rules"]
    /\ ret' = [ret EXCEPT !.calls = Append(@, [fn |-> "get_red_flag_rules", name |-> "",
                                                value |-> get_red_flag_rules(registry)])]
    /\ UNCHANGED <<pc, analysisVars>>

NextRegistry ==
    \/ CallGetAllRules
    \/ CallGetRuleByName
    \/ CallGetRedFlagRules

SpecRegistry == InitRegistry /\ [][NextRegistry]_vars

-----------------------------------------------------------------------------
(* Properties *)

\* C1: calculate_function_score returns a FunctionScore whose baseline is 100
\* and whose final score is max(0, 100 - sum of the violations' deducted
\* points), so the final score always lies in 0..100.
C1_FinalScoreClamped ==
    ret.fn = "calculate_function_score" =>
        LET total == SumPoints(args.violations)
        IN  /\ ret.value.baseline_score = 100
            /\ ret.value.final_score = (IF 100 - total > 0 THEN 100 - total ELSE 0)
            /\ ret.value.final_score \in 0..100
            /\ ret.value.violations = args.violations

\* the deductions exceed the baseline and the score is held at the floor
C1_Witness ==
    /\ ret.fn = "calculate_function_score"
    /\ SumPoints(args.violations) > 100
    /\ ret.value.final_score = 0

\* the pool of C2: every function's final score, every method's final score,
\* and for each class with a non-empty constructor violation list
\* max(0, 100 - sum of those violations' points)
C2_Pool(fscores, cscores) ==
    {fs.final_score : fs \in SeqRange(fscores)}
    \cup UNION {{m.final_score : m \in SeqRange(c.method_scores)} : c \in SeqRange(cscores)}
    \cup {Max2(0, 100 - SumPoints(c.constructor_violations)) :
            c \in {d \in SeqRange(cscores) : d.constructor_violations # <<>>}}

\* C2: aggregate_file_score returns the minimum of the pool of function
\* scores, method scores and dirty-constructor scores; a class with a clean
\* constructor adds nothing, and the result is 100 when the pool is empty.
C2_AggregateIsPoolMinimum ==
    ret.fn = "aggregate_file_score" =>
        LET pool == C2_Pool(args.function_scores, args.class_scores)
        IN  ret.value = (IF pool = {} THEN 100 ELSE SetMin(pool))

\* a dirty constructor is the worst construct of a file that also has a
\* function and a method
C2_Witness ==
    /\ ret.fn = "aggregate_file_score"
    /\ args.function_scores # <<>>
    /\ \A i \in 1..Len(args.function_scores) : args.function_scores[i].final_score = 100
    /\ \E i \in 1..Len(args.class_scores) :
          /\ args.class_scores[i].method_scores # <<>>
          /\ args.class_scores[i].method_scores[1].final_score = 100
          /\ SumPoints(args.class_scores[i].constructor_violations) = 60
    /\ ret.value = 40

\* the module-level function definitions of a file, in source order
TopLevelFunctions(t) ==
    SelectSeq([j \in 1..Len(t) |-> j],
              LAMBDA j : t[j].parent = 0 /\ t[j].kind \in FunctionKinds)

TopLevelScores(t, fscores) ==
    SelectSeq(fscores,
              LAMBDA fs : \E k \in 1..Len(TopLevelFunctions(t)) :
                              TopLevelFunctions(t)[k] = fs.line_number)

\* C3: for a file that parses, analyze_file returns as overall_score the
\* minimum over the scores of its top-level functions, its methods and its
\* dirty constructors, and nothing else.
C3_OverallScoreIsWorstConstruct ==
    (Terminated /\ file.status = "ok") =>
        /\ pc = "done"
        /\ LET pool == C2_Pool(TopLevelScores(file.nodes, result.function_scores),
                               result.class_scores)
           IN  result.overall_score = (IF pool = {} THEN 100 ELSE SetMin(pool))

\* C4: a file with a syntax error or undecodable bytes yields overall score 0,
\* classification "Parse Error" and empty function, class and red-flag lists,
\* and neither the context builder nor any rule has been invoked.
C4_ParseFailureShortCircuits ==
    file.status \in {"syntax_error", "decode_error"} =>
        /\ pc \in {"start", "done"}
        /\ context_builds = 0
        /\ rule_calls = 0
        /\ pc = "done" =>
              result = FileScore(file.path, 0, "Parse Error", <<>>, <<>>, <<>>)

\* a file whose text holds a function definition fails to parse
C4_Witness ==
    /\ pc = "done"
    /\ file.status = "syntax_error"
    /\ \E j \in 1..Len(file.nodes) : file.nodes[j].kind \in FunctionKinds
    /\ result.classification = "Parse Error"
    /\ result.overall_score = 0

HasDefinition(t) == \E j \in 1..Len(t) : t[j].kind \in DefKinds

\* C5: a file that parses and holds no function and no class yields overall
\* score 100, classification "Healthy" and empty function and class lists.
C5_NoConstructsIsHealthy ==
    (Terminated /\ file.status = "ok" /\ ~HasDefinition(file.nodes)) =>
        /\ pc = "done"
        /\ result.overall_score = 100
        /\ result.classification = "Healthy"
        /\ result.function_scores = <<>>
        /\ result.class_scores = <<>>

\* a file of module-level statements only has been analysed
C5_Witness ==
    /\ pc = "done"
    /\ file.status = "ok"
    /\ file.nodes # <<>>
    /\ ~HasDefinition(file.nodes)
    /\ context_builds = 1
    /\ result.classification = "Healthy"

\* C6: the red_flags of the result are every constructor violation of every
\* class and the red-flag violations of top-level functions, nothing else.
C6_RedFlagsFromConstructorsAndTopLevel ==
    (Terminated /\ file.status = "ok") =>
        /\ pc = "done"
        /\ SeqRange(result.red_flags) =
              SeqRange(AllConstructorViolations(result.class_scores))
              \cup SeqRange(FunctionRedFlags(
                       TopLevelScores(file.nodes, result.function_scores)))

\* C7: function_scores holds exactly one FunctionScore per top-level function
\* definition, in source order, and none for methods, constructors or
\* nested functions.
C7_OneScorePerTopLevelFunction ==
    (Terminated /\ file.status = "ok") =>
        /\ pc = "done"
        /\ Len(result.function_scores) = Len(TopLevelFunctions(file.nodes))
        /\ \A k \in 1..Len(result.function_scores) :
              /\ result.function_scores[k].line_number = TopLevelFunctions(file.nodes)[k]
              /\ result.function_scores[k].name =
                    file.nodes[TopLevelFunctions(file.nodes)[k]].name

\* C8: analyze_file never raises: for every path it ends by returning a
\* FileScore, and a read or decode that fails yields the Parse Error result.
C8_AnalyzeFileNeverRaises ==
    /\ pc # "raised"
    /\ (pc = "done" /\ file.status # "ok") =>
          result = FileScore(file.path, 0, "Parse Error", <<>>, <<>>, <<>>)

FileBand(score) ==
    IF score \in 80..100 THEN "Healthy"
    ELSE IF score \in 60..79 THEN "Caution"
    ELSE IF score \in 40..59 THEN "High Friction"
    ELSE IF score \in 0..39 THEN "Refactor First"
    ELSE "Unknown"

BandsHolding(bands, score) ==
    {k \in 1..Len(bands) : bands[k].min_score <= score /\ score <= bands[k].max_score}

\* C9: classify_file_score maps 80-100 to Healthy, 60-79 to Caution, 40-59 to
\* High Friction, 0-39 to Refactor First and anything else to Unknown; the
\* bands do not overlap and leave no gap in 0..100.
C9_FileBands ==
    /\ ret.fn = "classify_file_score" => ret.value = FileBand(args.score)
    /\ \A s \in 0..100 : Cardinality(BandsHolding(file_bands, s)) = 1

\* a band's lower boundary belongs to the band above it
C9_Witness ==
    /\ ret.fn = "classify_file_score"
    /\ args.score = 80
    /\ ret.value = "Healthy"

FunctionBand(score) ==
    IF score \in 75..100 THEN "Easy"
    ELSE IF score \in 55..74 THEN "Testable"
    ELSE IF score \in 35..54 THEN "Hard"
    ELSE IF score \in 0..34 THEN "Painful"
    ELSE "Unknown"

\* C10: classify_function_score maps 75-100 to Easy, 55-74 to Testable, 35-54
\* to Hard, 0-34 to Painful and anything else to Unknown.
C10_FunctionBands ==
    ret.fn = "classify_function_score" => ret.value = FunctionBand(args.score)

\* a score between the function and the file thresholds
C10_Witness ==
    /\ ret.fn = "classify_function_score"
    /\ args.score = 75
    /\ ret.value = "Easy"

\* the files a directory walk discovers, and the analysis of each alone
Discovered(listing) == find_python_files(listing)

StandaloneResults(files) == [i \in 1..Len(files) |-> analyze_file(FileOf(files[i]))]

AllReturn(rs) == \A i \in 1..Len(rs) : rs[i].exc = "none"

IsParseFailure(e) == e.is_file /\ e.status \in {"syntax_error", "decode_error"}

\* C11: analyze_directory returns exactly one FileScore for every Python file
\* discovered under the directory, in discovery order, skipping none; stated
\* for directories each of whose files can be analysed alone.
C11_OneResultPerDiscoveredFile ==
    (args.fn = "analyze_directory" /\ Terminated
        /\ AllReturn(StandaloneResults(Discovered(args.listing)))) =>
        /\ pc = "done"
        /\ Len(ret.results) = Len(Discovered(args.listing))
        /\ \A i \in 1..Len(ret.results) :
              ret.results[i] = StandaloneResults(Discovered(args.listing))[i].value

\* C12: when a file of the directory fails to parse, the run still returns,
\* and every discovered file, before and after the failing one, gets the
\* FileScore that analysing it alone gives.
C12_ParseFailureDoesNotAbort ==
    (args.fn = "analyze_directory" /\ Terminated
        /\ \E k \in 1..Len(args.listing) :
              EndsWithPy(args.listing[k].name) /\ IsParseFailure(args.listing[k])) =>
        /\ pc = "done"
        /\ ret.results = [i \in 1..Len(Discovered(args.listing)) |->
                             StandaloneResults(Discovered(args.listing))[i].value]

\* the class's constructor opens a file in its body
ConstructorOpensFile(t, c) ==
    /\ InitMethod(t, c) # 0
    /\ \E j \in 1..Len(t) : t[j].parent = InitMethod(t, c) /\ t[j].kind = "CallOpen"

SideEffectViolations(violations) ==
    SelectSeq(violations, LAMBDA v : v.rule_name = "Constructor Side Effects")

\* C13: analyze_file gives every class a ClassScore whose
\* constructor_violations hold exactly one "Constructor Side Effects"
\* violation (15 points, red flag) when the constructor opens a file, and
\* none when the class has no such constructor.
C13_ConstructorSideEffectAttributed ==
    (Terminated /\ file.status = "ok") =>
        \A c \in 1..Len(file.nodes) :
            file.nodes[c].kind = "ClassDef" =>
                /\ pc = "done"
                /\ \E k \in 1..Len(result.class_scores) :
                      /\ result.class_scores[k].line_number = c
                      /\ SideEffectViolations(result.class_scores[k].constructor_violations)
                            = IF ConstructorOpensFile(file.nodes, c)
                              THEN <<Violation("Constructor Side Effects", 15,
                                               InitMethod(file.nodes, c), "C.__init__", TRUE)>>
                              ELSE <<>>

\* the first positional parameter of a signature ("" when there is none)
FirstPositional(a) ==
    IF a.posonlyargs # <<>> THEN a.posonlyargs[1]
    ELSE IF a.args # <<>> THEN a.args[1]
    ELSE ""

\* the effective count of C15: every positional, positional-only and
\* keyword-only parameter, one for *args, one for **kwargs, less a
\* conventional first self
ClaimedParameterCount(a) ==
    Len(a.posonlyargs) + Len(a.args) + Len(a.kwonlyargs)
    + (IF a.vararg # "" THEN 1 ELSE 0) + (IF a.kwarg # "" THEN 1 ELSE 0)
    - (IF FirstPositional(a) = "self" THEN 1 ELSE 0)

\* C15: ParameterCountRule.evaluate returns exactly one 5-point non-red-flag
\* violation when the effective parameter count (excluding only a
\* conventional first self) exceeds 5, and no violation otherwise.
C15_ParameterCountViolation ==
    (ret.fn = "evaluate" /\ args.rule = "ParameterCountRule" /\ pc = "returned") =>
        /\ ret.outcome.exc = "none"
        /\ ret.outcome.violations =
              IF ClaimedParameterCount(args.node.parameters) > 5
              THEN <<Violation("Excessive Parameter Count", 5, 1, "f", FALSE)>>
              ELSE <<>>

\* the branching constructs below node i, counted as the claims count them:
\* one per if or loop, and two per try statement (the block and its handler)
BranchCount(t, i) ==
    Cardinality({j \in SeqRange(Walk(t, i)) : t[j].kind \in {"If", "For", "AsyncFor", "While"}})
    + 2 * Cardinality({j \in SeqRange(Walk(t, i)) : t[j].kind = "Try"})

\* C14: BranchExplosionRule.evaluate on a function with branch count n returns
\* no violation when n <= 3 and exactly one non-red-flag violation deducting
\* 2 * (n - 3) points when n > 3.
C14_BranchExplosionViolation ==
    (/\ pc # "rule_start"
     /\ args.rule = "BranchExplosionRule"
     /\ IsFunction(args.nodes, args.node))
    => LET n == BranchCount(args.nodes, args.node)
       IN  /\ ret.first.exc = "none"
           /\ n <= Branch_threshold => ret.first.violations = <<>>
           /\ n > Branch_threshold =>
                 /\ Len(ret.first.violations) = 1
                 /\ ret.first.violations[1].points_deducted = Branch_penalty * (n - Branch_threshold)
                 /\ ~ret.first.violations[1].is_red_flag

\* what one registered rule deducts when it alone is evaluated on node i
IndependentDeduction(rule, t, i) == SumPoints(evaluate(rule, t, build_context(t), i).violations)

RECURSIVE SumOfIndependentDeductions(_, _, _)
SumOfIndependentDeductions(rules, t, i) ==
    IF rules = <<>> THEN 0
    ELSE IndependentDeduction(Head(rules), t, i) + SumOfIndependentDeductions(Tail(rules), t, i)

\* C16: for every function of a file, the total deduction the analyzer applies
\* equals the sum of the deductions each registered rule yields when evaluated
\* alone on that function, whatever the order of the rules, and the final score
\* is the baseline less that sum, not below zero.
C16_DeductionIsSumOfIndependentRules ==
    (Terminated /\ file.status = "ok") =>
        /\ pc = "done"
        /\ \A k \in 1..Len(TopLevelFunctions(file.nodes)) :
              LET i == TopLevelFunctions(file.nodes)[k]
                  total == SumOfIndependentDeductions(get_all_rules, file.nodes, i)
              IN  \E j \in 1..Len(result.function_scores) :
                     /\ result.function_scores[j].line_number = i
                     /\ SumPoints(result.function_scores[j].violations) = total
                     /\ result.function_scores[j].final_score = Max2(min_score, baseline_score - total)

\* C17: get_all_rules always returns the same eleven rule instances in the
\* same order, their names pairwise distinct; get_rule_by_name(n) returns the
\* registered rule named n, or None when no registered rule has that name;
\* and no operation of the registry changes the registered rules.
C17_RegistryFixed ==
    pc = "registry" =>
        /\ registry = RuleRegistry
        /\ \A k \in 1..Len(ret.calls) :
              LET c == ret.calls[k]
              IN  /\ c.fn = "get_all_rules" =>
                        /\ c.value = get_all_rules
                        /\ Len(c.value) = 11
                        /\ \A i, j \in 1..Len(c.value) :
                              i # j => rule_name(c.value[i]) # rule_name(c.value[j])
                  /\ c.fn = "get_rule_by_name" =>
                        IF \E i \in 1..Len(get_all_rules) : rule_name(get_all_rules[i]) = c.name
                        THEN /\ c.value \in SeqRange(get_all_rules)
                             /\ rule_name(c.value) = c.name
                        ELSE c.value = "None"

\* a rule found by its name, then a name no registered rule has
C17_Witness ==
    /\ pc = "registry"
    /\ Len(ret.calls) = 2
    /\ ret.calls[1] = [fn |-> "get_rule_by_name", name |-> "Low Observability",
                       value |-> "ObservabilityRule"]
    /\ ret.calls[2] = [fn |-> "get_rule_by_name", name |-> "External Dependency Count",
                       value |-> "None"]
    /\ registry.rules = get_all_rules

NodeKind(t, i) == IF i = 0 THEN "Module" ELSE t[i].kind

\* the node is not of the kind the rule inspects: a class definition for
\* the Constructor Side Effects rule, a function definition for the others
WrongKind(rule, t, i) ==
    IF rule = "ConstructorSideEffectsRule"
    THEN NodeKind(t, i) # "ClassDef"
    ELSE NodeKind(t, i) \notin {"FunctionDef", "AsyncFunctionDef"}

\* C19: every rule, given a node that is not of the kind it inspects (a class
\* node for a function-level rule, a function node for the Constructor Side
\* Effects rule, or any other node), returns an empty list and raises nothing.
C19_WrongKindGivesEmptyList ==
    (pc # "rule_start" /\ WrongKind(args.rule, args.nodes, args.node)) =>
        ret.first = Ok(<<>>)

\* the Constructor Side Effects rule handed the __init__ that opens a file
C19_Witness ==
    /\ pc = "evaluated"
    /\ Len(args.nodes) >= 3
    /\ args.nodes[1].kind = "ClassDef"
    /\ args.nodes[2].kind = "FunctionDef" /\ args.nodes[2].name = "__init__"
    /\ args.nodes[3].kind = "CallOpen"
    /\ args.rule = "ConstructorSideEffectsRule"
    /\ args.node = 2
    /\ ret.first.exc = "none"
    /\ ret.first.violations = <<>>

\* the rules the claim names as always raising red flags
RedFlagRuleNames ==
    {"Non-Deterministic Time Usage", "Randomness Usage", "Global State Mutation",
     "Mixed I/O and Logic", "Exception-Driven Control Flow", "Constructor Side Effects"}

\* C20: a violation's is_red_flag depends on its rule alone: it is true for
\* every violation of the Time Usage, Randomness, Global State, Mixed I/O,
\* Exception Flow and Constructor Side Effects rules and false for every
\* violation of any other rule.
C20_RedFlagDependsOnRuleAlone ==
    pc # "rule_start" =>
        \A k \in 1..Len(ret.first.violations) :
            LET v == ret.first.violations[k]
            IN  /\ v.rule_name = rule_name(args.rule)
                /\ v.is_red_flag = (v.rule_name \in RedFlagRuleNames)

\* the Randomness rule has raised a violation, marked as a red flag
C20_Witness ==
    /\ pc = "evaluated"
    /\ args.rule = "RandomnessRule"
    /\ Len(ret.first.violations) = 1
    /\ ret.first.violations[1].rule_name = "Randomness Usage"
    /\ ret.first.violations[1].is_red_flag

\* C21: the branch count BranchExplosionRule uses for a function counts every
\* branching construct of the body exactly once: one per if, one per loop,
\* one per try block plus one per handler.
C21_BranchCountCountsEachConstructOnce ==
    (/\ pc # "rule_start"
     /\ args.rule = "BranchExplosionRule"
     /\ IsFunction(args.nodes, args.node))
    => _count_branches(args.nodes, Walk(args.nodes, args.node)) =
          [exc |-> "none", count |-> BranchCount(args.nodes, args.node)]

\* the body of the function holds an import whose top-level module is not in
\* the allow-list
ImportsOutsideAllowList(t) ==
    \E j \in 2..Len(t) : \E k \in 1..Len(ModulesOf(t[j])) :
        Head(ModulesOf(t[j])[k]) \notin HiddenImports_allowed

\* C22: HiddenImportsRule.evaluate returns exactly one 5-point non-red-flag
\* violation for a function whose body imports a module whose top-level name
\* is not allow-listed, however many such imports there are, and no violation
\* when every in-body import is allow-listed or there is none.
C22_HiddenImportViolation ==
    pc = "returned" =>
        /\ ret.outcome.exc = "none"
        /\ IF ImportsOutsideAllowList(args.nodes)
           THEN /\ Len(ret.outcome.violations) = 1
                /\ ret.outcome.violations[1].points_deducted = 5
                /\ ~ret.outcome.violations[1].is_red_flag
           ELSE ret.outcome.violations = <<>>

\* a name the file knows to be global: declared global somewhere, or bound
\* by an import
KnownGlobal(id, ctx) ==
    \/ id \in ctx.global_variables
    \/ \E import_name \in ctx.imports : id = ImportTopLevel(import_name)

\* the statement is one of the triggers the claim lists: a global
\* declaration, a plain or augmented assignment to a known global name or to
\* an attribute of a global-ish object, or a mutating call on a registry-like
\* object; reading an attribute is none of them
ClaimedGlobalMutation(n, ctx) ==
    \/ n.kind = "Global"
    \/ /\ n.kind \in {"Assign", "AugAssign"}
       /\ \/ TargetOf(n).expr = "Name" /\ KnownGlobal(TargetOf(n).id, ctx)
          \/ /\ TargetOf(n).expr = "Attribute"
             /\ TargetOf(n).value_id \in GlobalState_assigned_objects
    \/ /\ n.kind = "Expr"
       /\ ValueOf(n).expr = "Call"
       /\ ValueOf(n).func.attr \in GlobalState_mutators
       /\ ValueOf(n).func.value_id \in GlobalState_registries

\* C23: GlobalStateRule.evaluate returns exactly one 10-point red-flag
\* violation if and only if the function body holds a global declaration, an
\* assignment or augmented assignment to a known global name, an attribute
\* write on a global-ish object or a mutating call on a registry-like object;
\* merely reading an attribute of such an object yields nothing.
C23_GlobalStateViolation ==
    pc = "returned" =>
        /\ ret.outcome.exc = "none"
        /\ IF \E j \in 2..Len(args.nodes) : ClaimedGlobalMutation(args.nodes[j], args.context)
           THEN /\ Len(ret.outcome.violations) = 1
                /\ ret.outcome.violations[1].points_deducted = 10
                /\ ret.outcome.violations[1].is_red_flag
           ELSE ret.outcome.violations = <<>>

\* the position in the registry of the rule that has this name
RegistrationIndex(name) ==
    CHOOSE k \in 1..Len(get_all_rules) : rule_name(get_all_rules[k]) = name

\* no violation of an earlier registered rule follows one of a later rule
InRegistrationOrder(violations) ==
    \A a, b \in 1..Len(violations) :
        a < b => RegistrationIndex(violations[a].rule_name)
                    <= RegistrationIndex(violations[b].rule_name)

\* C24: in the list of violations collected for a function, method or
\* constructor the violations stand in rule registration order: no violation
\* of a rule registered earlier follows one of a rule registered later.
C24_ViolationsInRegistrationOrder ==
    ret.fn = "rule_loop" => InRegistrationOrder(ret.violations)

\* the loop has collected violations of two different rules
C24_Witness ==
    /\ ret.fn = "rule_loop"
    /\ \E a, b \in 1..Len(ret.violations) :
          /\ a < b
          /\ RegistrationIndex(ret.violations[a].rule_name)
                < RegistrationIndex(ret.violations[b].rule_name)

\* the stages in the order the claim gives them, and the short cut a failed
\* parse takes to the terminal state
StageSuccessors ==
    {<<"start", "parsed">>, <<"parsed", "context">>, <<"context", "functions">>,
     <<"functions", "classes">>, <<"classes", "aggregated">>,
     <<"aggregated", "classified">>, <<"classified", "done">>}

StageStep ==
    \/ <<pc, pc'>> \in StageSuccessors
    \/ pc = "start" /\ pc' = "done" /\ file.status # "ok"

\* C25: every run of analyze_file returns after finitely many steps, having
\* passed through parse, build context, score functions, score classes,
\* aggregate, classify and collect red flags in that order; a failed parse
\* ends the run at once.
C25_RunReturnsThroughStages ==
    /\ <>(pc = "done")
    /\ [][StageStep]_vars

\* C26: the file score analyze_file computes inline equals
\* aggregate_file_score applied to the same function_scores and class_scores,
\* for every combination of function scores, method scores and constructor
\* violations.
C26_InlineScoreIsAggregateFileScore ==
    pc = "compared" =>
        /\ overall_score = aggregate_file_score(function_scores, class_scores)
        /\ overall_score = ret.value

\* a constructor deducting more than the baseline, beside a function and a
\* method that score 100: both computations give 0
C26_Witness ==
    /\ pc = "compared"
    /\ Len(function_scores) = 1 /\ function_scores[1].final_score = 100
    /\ Len(class_scores) = 1
    /\ Len(class_scores[1].method_scores) = 1
    /\ class_scores[1].method_scores[1].final_score = 100
    /\ SumPoints(class_scores[1].constructor_violations) = 120
    /\ overall_score = 0
    /\ ret.value = 0

\* C27: every FileScore analyze_file returns has an overall_score within
\* 0..100; its classification is "Parse Error" exactly when parsing failed,
\* and otherwise it is classify_file_score(overall_score) and never "Unknown".
C27_ReturnedScoreAndClassification ==
    pc = "done" =>
        /\ result.overall_score \in 0..100
        /\ (result.classification = "Parse Error")
              <=> (file.status \in {"syntax_error", "decode_error"})
        /\ file.status = "ok" =>
              /\ result.classification = classify_file_score(result.overall_score)
              /\ result.classification # "Unknown"

\* a parseable file that holds a class is returned with a band of the file
\* scale
C27_Witness ==
    /\ pc = "done"
    /\ file.status = "ok"
    /\ \E j \in 1..Len(file.nodes) : file.nodes[j].kind = "ClassDef"
    /\ Len(result.class_scores) >= 1
    /\ result.overall_score = 100
    /\ result.classification = "Healthy"

\* C28: analyze_file returns for every parseable file, also one whose class
\* has a constructor with findings, a red_flags list that lists every
\* violation at most once.
C28_RedFlagsListedOnce ==
    (Terminated /\ file.status = "ok") =>
        /\ pc = "done"
        /\ \A a, b \in 1..Len(result.red_flags) :
              a # b => result.red_flags[a] # result.red_flags[b]

\* C29: the name-based red-flag sets agree with the marker on the
\* violations: a registered rule is among get_red_flag_rules exactly when the
\* violations it raises are red flags, and detect_red_flags of a list of
\* violations is the list of those whose is_red_flag is true.
C29_RedFlagNamesAgreeWithMarker ==
    (pc = "returned" /\ ret.fn = "detect_red_flags") =>
        /\ ret.detected = SelectRedFlags(ret.violations)
        /\ \A k \in 1..Len(ret.violations) :
              ret.violations[k].is_red_flag <=> args.rule \in SeqRange(ret.red_flag_rules)

\* C30: every rule class exported by the rules package, External Dependency
\* Count included, is registered: each list returned by get_all_rules holds
\* all of them.
C30_EveryExportedRuleRegistered ==
    (pc = "registry") =>
        \A k \in 1..Len(ret.calls) :
            ret.calls[k].fn = "get_all_rules" =>
                AllRuleClasses \subseteq SeqRange(ret.calls[k].value)

====
